---- MODULE Spec2Model ----
(***************************************************************************)
(* A model of plangrid/flask_toolbox/framing/swagger_generator.py: the     *)
(* JSONSchema flattener (_flatten, _flatten_object, _flatten_array), the   *)
(* Flask-to-Swagger path translator (_format_path_for_swagger) and the     *)
(* SwaggerV2Generator (generate and its helpers).                          *)
(*                                                                         *)
(* Python dicts are modelled as TLA+ functions/records whose DOMAIN is the *)
(* set of keys present; dicts that the code iterates are kept as sequences *)
(* of <<key, value>> pairs in iteration order.  Objects that the code      *)
(* mutates in place live in an explicit heap (a sequence of dicts, an      *)
(* address is an index), so that aliasing and copying are visible.         *)
(* Strings that the code scans character by character are sequences of     *)
(* one-character strings.                                                  *)
(***************************************************************************)
EXTENDS Integers, Sequences, FiniteSets, TLC

VARIABLES
    pc,                 \* which operation has run
    parts,              \* path translator: the pieces the route pattern was written from
    path,               \* path translator: the Flask route pattern (characters)
    subbed_path,        \* path translator: returned Swagger path
    path_args,          \* path translator: returned tuple of _PathArgument
    heap,               \* flattener: the dict objects in memory
    stack,              \* flattener: addresses of the fragments the caller is building
    input,              \* flattener: address of the schema handed to _flatten
    fragment,           \* flattener: that schema's value when _flatten was called
    schema,             \* flattener: address of the returned schema
    definitions,        \* flattener: returned definitions dict, title -> address
    framer_paths,       \* framer.paths: path -> method -> route definition, in dict order
    default_authenticator,              \* framer.default_authenticator
    authenticator_converters,           \* generator.authenticator_converters
    flask_converters_to_swagger_types,  \* generator.flask_converters_to_swagger_types
    swagger,            \* what each call of generator.generate(framer) returned or raised
    converter_calls,    \* the registry conversions each call of generate made
    iteration_order     \* the order in which this run of the program iterates the
                        \* set of authenticators (their hashes are their addresses)

pathVars == <<parts, path, subbed_path, path_args>>

flattenVars == <<heap, stack, input, fragment, schema, definitions>>

generatorVars == <<framer_paths, default_authenticator, authenticator_converters,
                   flask_converters_to_swagger_types, swagger, converter_calls,
                   iteration_order>>

vars == <<pc, pathVars, flattenVars, generatorVars>>

(***************************************************************************)
(* Bounds of the model.                                                    *)
(***************************************************************************)
\* Number of pieces (literal characters, placeholders) a route pattern is written from.
MaxParts == 3

\* Number of dicts in a JSONSchema handed to _flatten.
MaxNodes == 4

\* Number of calls of generate on the finished route table.
MaxCalls == 2

(***************************************************************************)
(* Generic helpers.                                                        *)
(***************************************************************************)
Min(S) == CHOOSE m \in S : \A n \in S : m <= n

EmptyDict == [k \in {} |-> 0]

\* x = v; F(x): the value v, computed once, under a local name
Let(v, F(_)) == CHOOSE r \in { F(x) : x \in {v} } : TRUE

\* d[k] = v on a dict d
DictSet(d, k, v) ==
    Let(d, LAMBDA dd : [x \in (DOMAIN dd) \cup {k} |-> IF x = k THEN v ELSE dd[x]])

RECURSIVE Concat(_)
Concat(seqs) ==
    IF seqs = <<>> THEN <<>> ELSE Head(seqs) \o Concat(Tail(seqs))

(***************************************************************************)
(* The parts of the state an operation under study does not use.           *)
(***************************************************************************)
PathIdle ==
    /\ parts = <<>>
    /\ path = <<>>
    /\ subbed_path = <<>>
    /\ path_args = <<>>

FlattenIdle ==
    /\ heap = <<>>
    /\ stack = <<>>
    /\ input = 0
    /\ fragment = EmptyDict
    /\ schema = 0
    /\ definitions = EmptyDict

GeneratorIdle ==
    /\ framer_paths = <<>>
    /\ default_authenticator = EmptyDict
    /\ authenticator_converters = EmptyDict
    /\ flask_converters_to_swagger_types = EmptyDict
    /\ swagger = <<>>
    /\ converter_calls = <<>>
    /\ iteration_order = <<>>

(***************************************************************************)
(* Path translator.                                                        *)
(***************************************************************************)
\* One attempt of _PATH_REGEX = '<((?P<type>.+?):)?(?P<name>.+?)>' at position i.
\* The pattern is compiled without DOTALL: '.' is any character but a line
\* feed.  The optional type group is tried first; '.+?' is lazy, so the type
\* ends at the first ':' (at least one character after '<') for which the
\* rest can still match, and the name ends at the first '>' at least one
\* character later.  Only when no type can be matched is the group skipped.
\* A group that did not take part (Python's None) is the empty sequence: a
\* group that took part is never empty.
NoMatch == [start |-> 0, end |-> 0, type |-> <<>>, name |-> <<>>]

\* p[a..b] is matched by a run of '.'
Dots(p, a, b) == \A x \in a..b : p[x] # "\n"

\* Where a lazy '.+?>' that starts at position a ends: at the first '>' at
\* least one character later, when no line feed comes before it; 0 when it
\* cannot match.
NameEnd(p, a) ==
    LET ks == { k \in (a + 1)..Len(p) : p[k] = ">" }
    IN  IF ks # {} /\ Dots(p, a, Min(ks) - 1) THEN Min(ks) ELSE 0

_PATH_REGEX_match(p, i) ==
    IF p[i] # "<" THEN NoMatch
    ELSE
      LET js == { j \in (i + 2)..Len(p) :
                    /\ p[j] = ":"
                    /\ Dots(p, i + 1, j - 1)
                    /\ NameEnd(p, j + 1) # 0 }
      IN  IF js # {}
          THEN LET j == Min(js)
                   k == NameEnd(p, j + 1)
               IN  [start |-> i, end |-> k,
                    type |-> SubSeq(p, i + 1, j - 1),
                    name |-> SubSeq(p, j + 1, k - 1)]
          ELSE IF NameEnd(p, i + 1) # 0
          THEN LET k == NameEnd(p, i + 1)
               IN  [start |-> i, end |-> k,
                    type |-> <<>>,
                    name |-> SubSeq(p, i + 1, k - 1)]
          ELSE NoMatch

\* _PATH_REGEX.finditer(path): the non-overlapping matches, leftmost first.
RECURSIVE _PATH_REGEX_finditer(_, _)
_PATH_REGEX_finditer(p, pos) ==
    LET starts == { i \in pos..Len(p) : _PATH_REGEX_match(p, i) # NoMatch }
    IN  IF starts = {} THEN <<>>
        ELSE LET m == _PATH_REGEX_match(p, Min(starts))
             IN  <<m>> \o _PATH_REGEX_finditer(p, m.end + 1)

\* 'string' as the characters match.group('type') is compared with
DefaultType == <<"s", "t", "r", "i", "n", "g">>

\* _PathArgument(name=match.group('name'), type=match.group('type') or 'string')
_PathArgument(m) ==
    [name |-> m.name, type |-> IF m.type = <<>> THEN DefaultType ELSE m.type]

\* _PATH_REGEX.sub(repl=lambda match: '{name}', string=path), from position pos
RECURSIVE _PATH_REGEX_sub(_, _, _)
_PATH_REGEX_sub(p, matches, pos) ==
    IF matches = <<>> THEN SubSeq(p, pos, Len(p))
    ELSE LET m == Head(matches)
         IN  SubSeq(p, pos, m.start - 1) \o <<"{">> \o m.name \o <<"}">>
               \o _PATH_REGEX_sub(p, Tail(matches), m.end + 1)

_format_path_for_swagger(p) ==
    LET matches == _PATH_REGEX_finditer(p, 1)
    IN  [subbed_path |-> _PATH_REGEX_sub(p, matches, 1),
         args |-> [i \in 1..Len(matches) |-> _PathArgument(matches[i])]]

(***************************************************************************)
(* Route patterns the translator is run on: up to MaxParts pieces, each a  *)
(* literal character (a line feed among them), a placeholder '<name>' or   *)
(* '<type:name>', or a stray delimiter.                                    *)
(***************************************************************************)
Literal(c) == [kind |-> "literal", text |-> <<c>>]
Placeholder(t, n) == [kind |-> "placeholder", type |-> t, name |-> n]

PathParts ==
    { Literal("/"), Literal("a"), Literal("<"), Literal(">"), Literal(":"),
      Literal("\n"),
      Placeholder(<<>>, <<"n">>), Placeholder(<<"t">>, <<"m">>) }

\* How a piece is written in a Flask route pattern.
Render(part) ==
    IF part.kind = "literal" THEN part.text
    ELSE IF part.type = <<>> THEN <<"<">> \o part.name \o <<">">>
    ELSE <<"<">> \o part.type \o <<":">> \o part.name \o <<">">>

RenderAll(ps) == Concat([i \in 1..Len(ps) |-> Render(ps[i])])

PartSeqs == UNION { [1..n -> PathParts] : n \in 0..MaxParts }

(***************************************************************************)
(* JSONSchema fragments.  As a value, a fragment is a record holding the   *)
(* keys of the Python dict: a primitive is [type], an array is [type,      *)
(* items] with an optional title, an object is [type, title, properties]   *)
(* with properties a sequence of <<field, fragment>> in iteration order,   *)
(* and a reference is [ref] (the '$ref' key).  In the heap the same dicts  *)
(* hold the addresses of their children instead of the children.           *)
(***************************************************************************)
Titles == {"x", "y", "z"}

Fields == <<"a", "b">>

Primitives == { [type |-> "integer"], [type |-> "string"] }

\* A fragment given as a value is laid out in the heap, children before
\* parents.
RECURSIVE Alloc(_, _), AllocProperties(_, _)
AllocProperties(h, props) ==
    IF props = <<>> THEN [heap |-> h, properties |-> <<>>]
    ELSE LET c == Alloc(h, Head(props)[2])
             rest == AllocProperties(c.heap, Tail(props))
         IN  [heap |-> rest.heap,
              properties |-> << <<Head(props)[1], c.addr>> >> \o rest.properties]

Alloc(h, t) ==
    IF "properties" \in DOMAIN t
    THEN LET r == AllocProperties(h, t.properties)
         IN  [heap |-> Append(r.heap, [t EXCEPT !.properties = r.properties]),
              addr |-> Len(r.heap) + 1]
    ELSE IF "items" \in DOMAIN t
    THEN LET r == Alloc(h, t.items)
         IN  [heap |-> Append(r.heap, [t EXCEPT !.items = r.addr]),
              addr |-> Len(r.heap) + 1]
    ELSE [heap |-> Append(h, t), addr |-> Len(h) + 1]

\* The value of the dict at address a, children included (what == compares).
RECURSIVE Val(_, _)
Val(h, a) ==
    LET d == h[a]
    IN  IF "properties" \in DOMAIN d
        THEN [d EXCEPT !.properties =
                [i \in 1..Len(d.properties) |->
                    <<d.properties[i][1], Val(h, d.properties[i][2])>>]]
        ELSE IF "items" \in DOMAIN d
        THEN [d EXCEPT !.items = Val(h, d.items)]
        ELSE d

(***************************************************************************)
(* The flattener.                                                          *)
(***************************************************************************)
\* return obj[sw.title]
_get_key(obj) == obj.title

RECURSIVE Join(_, _)
Join(strs, sep) ==
    IF Len(strs) = 1 THEN strs[1]
    ELSE strs[1] \o sep \o Join(Tail(strs), sep)

\* A plausible slip: the reference is the bare key, without '#/definitions'.
_get_ref_bare(key) == key

\* '/'.join(list(path) + [key]) with path = ('#', sw.definitions)
_get_ref(key) == Join(<<"#", "definitions">> \o <<key>>, "/")

\* A plausible slip: the working schema is the caller's own object.
deepcopy_alias(h, a) == [heap |-> h, addr |-> a]

\* copy.deepcopy(x, memo) of the dict at address a: a dict that was copied
\* already is not copied again, its copy is used (memo[id(x)]); otherwise a
\* new dict is made of the copies of its children.  The dicts here are built
\* children first and never rewritten, so none is its own descendant.
RECURSIVE _deepcopy_dict(_, _, _)
RECURSIVE deepcopy_properties(_, _, _)
deepcopy_properties(h, props, memo) ==
    IF props = <<>> THEN [heap |-> h, properties |-> <<>>, memo |-> memo]
    ELSE Let(_deepcopy_dict(h, Head(props)[2], memo), LAMBDA c :
         Let(deepcopy_properties(c.heap, Tail(props), c.memo), LAMBDA rest :
             [heap |-> rest.heap,
              properties |-> << <<Head(props)[1], c.addr>> >> \o rest.properties,
              memo |-> rest.memo]))

_deepcopy_dict(h, a, memo) ==
    IF a \in DOMAIN memo THEN [heap |-> h, addr |-> memo[a], memo |-> memo]
    ELSE LET d == h[a]
         IN  IF "properties" \in DOMAIN d
             THEN Let(deepcopy_properties(h, d.properties, memo), LAMBDA r :
                      [heap |-> Append(r.heap, [d EXCEPT !.properties = r.properties]),
                       addr |-> Len(r.heap) + 1,
                       memo |-> DictSet(r.memo, a, Len(r.heap) + 1)])
             ELSE IF "items" \in DOMAIN d
             THEN Let(_deepcopy_dict(h, d.items, memo), LAMBDA r :
                      [heap |-> Append(r.heap, [d EXCEPT !.items = r.addr]),
                       addr |-> Len(r.heap) + 1,
                       memo |-> DictSet(r.memo, a, Len(r.heap) + 1)])
             ELSE [heap |-> Append(h, d),
                   addr |-> Len(h) + 1,
                   memo |-> DictSet(memo, a, Len(h) + 1)]

\* copy.deepcopy(schema): new dicts for the whole fragment, a dict that is
\* used in several places being copied once.
deepcopy(h, a) ==
    Let(_deepcopy_dict(h, a, EmptyDict), LAMBDA r : [heap |-> r.heap, addr |-> r.addr])

\* A KeyError inside the flattener: the dicts are as the calls so far have
\* left them, and nothing is returned.
FlattenKeyError(h, defs) == [raised |-> TRUE, heap |-> h, definitions |-> defs, key |-> ""]

RECURSIVE _flatten_object(_, _, _)
RECURSIVE _flatten_array(_, _, _)
RECURSIVE _flatten_object_fields(_, _, _, _)

\* _flatten_array(schema, definitions), schema an address: the dict is
\* rewritten in place.  Reading 'type' of a dict that has none (a '$ref'
\* written by an earlier call) is a KeyError.
_flatten_array(h, defs, s) ==
    IF "items" \notin DOMAIN h[s] THEN FlattenKeyError(h, defs)
    ELSE LET items == h[s].items
         IN  IF "type" \notin DOMAIN h[items] THEN FlattenKeyError(h, defs)
             ELSE IF h[items].type = "object"
             THEN Let(_flatten_object(h, defs, items), LAMBDA r :
                      IF r.raised THEN r
                      ELSE [raised |-> FALSE,
                            heap |-> [Append(r.heap, [ref |-> _get_ref(r.key)])
                                        EXCEPT ![s].items = Len(r.heap) + 1],
                            definitions |-> r.definitions,
                            key |-> ""])
             ELSE IF h[items].type = "array"
             THEN _flatten_array(h, defs, items)
             ELSE [raised |-> FALSE, heap |-> h, definitions |-> defs, key |-> ""]

\* The loop of _flatten_object over schema[sw.properties].items(), from the
\* i-th property on.
_flatten_object_fields(h, defs, s, i) ==
    IF i > Len(h[s].properties)
    THEN [raised |-> FALSE, heap |-> h, definitions |-> defs, key |-> ""]
    ELSE LET field == h[s].properties[i][1]
             obj == h[s].properties[i][2]
         IN  IF "type" \notin DOMAIN h[obj] THEN FlattenKeyError(h, defs)
             ELSE IF h[obj].type = "object"
             THEN Let(_flatten_object(h, defs, obj), LAMBDA r :
                      IF r.raised THEN r
                      ELSE _flatten_object_fields(
                               [Append(r.heap, [ref |-> _get_ref(r.key)])
                                  EXCEPT ![s].properties[i] = <<field, Len(r.heap) + 1>>],
                               r.definitions, s, i + 1))
             ELSE IF h[obj].type = "array"
             THEN Let(_flatten_array(h, defs, obj), LAMBDA r :
                      IF r.raised THEN r
                      ELSE _flatten_object_fields(r.heap, r.definitions, s, i + 1))
             ELSE _flatten_object_fields(h, defs, s, i + 1)

\* _flatten_object(schema, definitions): definitions[key] = schema holds the
\* object itself (its address).
_flatten_object(h, defs, s) ==
    IF "properties" \notin DOMAIN h[s] THEN FlattenKeyError(h, defs)
    ELSE Let(_flatten_object_fields(h, defs, s, 1), LAMBDA r :
             IF r.raised THEN r
             ELSE IF "title" \notin DOMAIN r.heap[s]
             THEN FlattenKeyError(r.heap, r.definitions)
             ELSE [raised |-> FALSE,
                   heap |-> r.heap,
                   definitions |-> DictSet(r.definitions, _get_key(r.heap[s]), s),
                   key |-> _get_key(r.heap[s])])

\* What _flatten gives when a KeyError left it: no schema (0) and no
\* definitions.
FlattenRaisedIn(h) == [raised |-> TRUE, heap |-> h, schema |-> 0, definitions |-> EmptyDict]

\* A plausible slip: a root that is neither an object nor an array is
\* refused; the call raises and returns nothing.
_flatten_strict(h, a) ==
    Let(deepcopy(h, a), LAMBDA c :
        IF "type" \notin DOMAIN c.heap[c.addr] THEN FlattenRaisedIn(c.heap)
        ELSE IF c.heap[c.addr].type = "object"
        THEN Let(_flatten_object(c.heap, EmptyDict, c.addr), LAMBDA r :
                 IF r.raised THEN FlattenRaisedIn(r.heap)
                 ELSE [raised |-> FALSE,
                       heap |-> Append(r.heap, [ref |-> _get_ref(r.key)]),
                       schema |-> Len(r.heap) + 1,
                       definitions |-> r.definitions])
        ELSE IF c.heap[c.addr].type = "array"
        THEN Let(_flatten_array(c.heap, EmptyDict, c.addr), LAMBDA r :
                 IF r.raised THEN FlattenRaisedIn(r.heap)
                 ELSE [raised |-> FALSE, heap |-> r.heap, schema |-> c.addr,
                       definitions |-> r.definitions])
        ELSE FlattenRaisedIn(c.heap))

\* A plausible slip: every root that is not an array is replaced by a
\* reference, built from its type when it has no properties to walk.
_flatten_ref_always(h, a) ==
    Let(deepcopy(h, a), LAMBDA c :
        IF "type" \notin DOMAIN c.heap[c.addr] THEN FlattenRaisedIn(c.heap)
        ELSE IF c.heap[c.addr].type = "object"
        THEN Let(_flatten_object(c.heap, EmptyDict, c.addr), LAMBDA r :
                 IF r.raised THEN FlattenRaisedIn(r.heap)
                 ELSE [raised |-> FALSE,
                       heap |-> Append(r.heap, [ref |-> _get_ref(r.key)]),
                       schema |-> Len(r.heap) + 1,
                       definitions |-> r.definitions])
        ELSE IF c.heap[c.addr].type = "array"
        THEN Let(_flatten_array(c.heap, EmptyDict, c.addr), LAMBDA r :
                 IF r.raised THEN FlattenRaisedIn(r.heap)
                 ELSE [raised |-> FALSE, heap |-> r.heap, schema |-> c.addr,
                       definitions |-> r.definitions])
        ELSE [raised |-> FALSE,
              heap |-> Append(c.heap, [ref |-> _get_ref(c.heap[c.addr].type)]),
              schema |-> Len(c.heap) + 1,
              definitions |-> EmptyDict])

\* _flatten(schema): returns (schema, definitions), or raises; heap is the
\* memory after the call.
_flatten(h, a) ==
    Let(deepcopy(h, a), LAMBDA c :
        IF "type" \notin DOMAIN c.heap[c.addr] THEN FlattenRaisedIn(c.heap)
        ELSE IF c.heap[c.addr].type = "object"
        THEN Let(_flatten_object(c.heap, EmptyDict, c.addr), LAMBDA r :
                 IF r.raised THEN FlattenRaisedIn(r.heap)
                 ELSE [raised |-> FALSE,
                       heap |-> Append(r.heap, [ref |-> _get_ref(r.key)]),
                       schema |-> Len(r.heap) + 1,
                       definitions |-> r.definitions])
        ELSE IF c.heap[c.addr].type = "array"
        THEN Let(_flatten_array(c.heap, EmptyDict, c.addr), LAMBDA r :
                 IF r.raised THEN FlattenRaisedIn(r.heap)
                 ELSE [raised |-> FALSE, heap |-> r.heap, schema |-> c.addr,
                       definitions |-> r.definitions])
        ELSE [raised |-> FALSE, heap |-> c.heap, schema |-> c.addr,
              definitions |-> EmptyDict])

(***************************************************************************)
(* Specification of the path translator.                                   *)
(***************************************************************************)
InitPath ==
    /\ pc = "path_ready"
    /\ parts \in PartSeqs
    /\ path = RenderAll(parts)
    /\ subbed_path = <<>>
    /\ path_args = <<>>
    /\ FlattenIdle
    /\ GeneratorIdle

FormatPath ==
    /\ pc = "path_ready"
    /\ LET r == _format_path_for_swagger(path)
       IN  /\ subbed_path' = r.subbed_path
           /\ path_args' = r.args
    /\ pc' = "path_done"
    /\ UNCHANGED <<parts, path, flattenVars, generatorVars>>

NextPath == FormatPath

SpecPath == InitPath /\ [][NextPath]_vars

(***************************************************************************)
(* Specification of the flattener: a caller builds a fragment, dict by     *)
(* dict (children first, as a dict literal is evaluated), and calls        *)
(* _flatten on it once.  A dict may be put under both fields of an object. *)
(***************************************************************************)
InitFlatten ==
    /\ pc = "build"
    /\ heap = <<>>
    /\ stack = <<>>
    /\ input = 0
    /\ fragment = EmptyDict
    /\ schema = 0
    /\ definitions = EmptyDict
    /\ PathIdle
    /\ GeneratorIdle

\* A new dict that takes the k fragments on top of the stack as children may
\* be built while the fragment can still be completed within MaxNodes dicts.
CanBuild(k) ==
    /\ pc = "build"
    /\ Len(stack) >= k
    /\ Len(heap) + 1 + (Len(stack) - k) <= MaxNodes

Push(d, k) ==
    /\ heap' = Append(heap, d)
    /\ stack' = Append(SubSeq(stack, 1, Len(stack) - k), Len(heap) + 1)
    /\ UNCHANGED <<pc, input, fragment, schema, definitions, pathVars, generatorVars>>

\* {'type': 'integer'}, {'type': 'string'}
NewPrimitive ==
    /\ CanBuild(0)
    /\ \E d \in Primitives : Push(d, 0)

\* {'type': 'object', 'title': t, 'properties': {...}} with no, one or two
\* fields; the two fields hold two dicts or one and the same dict.
NewObject ==
    \E t \in Titles :
        \/ /\ CanBuild(0)
           /\ Push([type |-> "object", title |-> t, properties |-> <<>>], 0)
        \/ /\ CanBuild(1)
           /\ \E f \in 1..Len(Fields) :
                Push([type |-> "object", title |-> t,
                      properties |-> << <<Fields[f], stack[Len(stack)]>> >>], 1)
        \/ /\ CanBuild(2)
           /\ Push([type |-> "object", title |-> t,
                    properties |-> << <<Fields[1], stack[Len(stack) - 1]>>,
                                      <<Fields[2], stack[Len(stack)]>> >>], 2)
        \/ /\ CanBuild(1)
           /\ Push([type |-> "object", title |-> t,
                    properties |-> << <<Fields[1], stack[Len(stack)]>>,
                                      <<Fields[2], stack[Len(stack)]>> >>], 1)

\* {'type': 'array', 'items': ...}, with or without a title
NewArray ==
    /\ CanBuild(1)
    /\ \/ Push([type |-> "array", items |-> stack[Len(stack)]], 1)
       \/ \E t \in Titles :
            Push([type |-> "array", title |-> t, items |-> stack[Len(stack)]], 1)

\* schema, definitions = _flatten(input_); when the call raises there is
\* no schema (0) and there are no definitions.
Flatten ==
    /\ pc = "build"
    /\ Len(stack) = 1
    /\ input' = stack[1]
    /\ fragment' = Val(heap, stack[1])
    /\ \E r \in { _flatten(heap, stack[1]) } :
           /\ heap' = r.heap
           /\ schema' = r.schema
           /\ definitions' = r.definitions
    /\ pc' = "flatten_done"
    /\ UNCHANGED <<stack, pathVars, generatorVars>>

NextFlatten == NewPrimitive \/ NewObject \/ NewArray \/ Flatten

SpecFlatten == InitFlatten /\ [][NextFlatten]_vars

\* What the caller of _flatten got back, as values.
ReturnedSchema == Val(heap, schema)

ReturnedDefinitions == [k \in DOMAIN definitions |-> Val(heap, definitions[k])]

(***************************************************************************)
(* Collaborators of the generator that live in other modules of the        *)
(* package: the framer's sentinels and authenticators, the Marshmallow     *)
(* schemas, get_swagger_title and the four converter registries.           *)
(***************************************************************************)
None == [kind |-> "None"]

USE_DEFAULT == [kind |-> "USE_DEFAULT"]

\* HeaderApiKeyAuthenticator(header=..., name=...); id stands for the
\* identity of the instance.
HeaderApiKeyAuthenticator(id, header, name) ==
    [kind |-> "authenticator", klass |-> "HeaderApiKeyAuthenticator",
     id |-> id, header |-> header, name |-> name]

\* An authenticator of a class of the application's own.
CustomAuthenticator(id, name) ==
    [kind |-> "authenticator", klass |-> "CustomAuthenticator",
     id |-> id, name |-> name]

\* A Marshmallow schema instance: its class, its swagger title and its
\* declared fields; id stands for the identity of the instance.
Schema(id, klass, title, fields) ==
    [kind |-> "schema", id |-> id, klass |-> klass, title |-> title, fields |-> fields]

\* A schema instance whose converter renders it as an array of the
\* conversion of `of`: a schema of many items, or a schema class with a
\* converter of the application's own.
ArraySchema(id, klass, title, of) ==
    [kind |-> "schema", id |-> id, klass |-> klass, title |-> title,
     fields |-> <<>>, array_of |-> of]

\* m.fields.String() / Integer(); wire is the load_from name
Field(name, type) ==
    [name |-> name, wire |-> name, type |-> type,
     required |-> FALSE, dump_only |-> FALSE]

get_swagger_title(obj) == obj.title

\* The conversion of a schema by a registry: an object fragment titled by
\* get_swagger_title, one property per declared field under its wire name,
\* nested schemas inline, and a 'required' list when a field is required.
\* The request-body registry leaves dump-only fields out.
\* A schema rendered as an array converts to an array fragment whose items
\* are the conversion of the schema it is an array of.
RECURSIVE ConvertSchema(_, _)
ConvertField(f, registry) ==
    IF f.type = "nested" THEN ConvertSchema(f.nested, registry)
    ELSE IF f.type = "list"
    THEN [type |-> "array", items |-> ConvertSchema(f.nested, registry)]
    ELSE [type |-> f.type]

Shown(f) == ~f.dump_only

ConvertSchema(sch, registry) ==
    LET fs == IF registry = "request_body" THEN SelectSeq(sch.fields, Shown)
              ELSE sch.fields
        IsRequired(f) == f.required
        req == SelectSeq(fs, IsRequired)
        obj == [type |-> "object",
                title |-> get_swagger_title(sch),
                properties |-> [i \in 1..Len(fs) |->
                                  <<fs[i].wire, ConvertField(fs[i], registry)>>]]
    IN  IF "array_of" \in DOMAIN sch
        THEN [type |-> "array", items |-> ConvertSchema(sch.array_of, registry)]
        ELSE IF req = <<>> THEN obj
        ELSE [k \in DOMAIN obj \cup {"required"} |->
                IF k = "required" THEN [i \in 1..Len(req) |-> req[i].wire]
                ELSE obj[k]]

_response_converter(sch) == ConvertSchema(sch, "response")

_request_body_converter(sch) == ConvertSchema(sch, "request_body")

_query_string_converter(sch) == ConvertSchema(sch, "query_string")

_headers_converter(sch) == ConvertSchema(sch, "headers")

\* registry.convert(schema) for a logged call [registry, schema]
Converted(call) ==
    IF call.registry = "response" THEN _response_converter(call.schema)
    ELSE IF call.registry = "request_body" THEN _request_body_converter(call.schema)
    ELSE IF call.registry = "query_string" THEN _query_string_converter(call.schema)
    ELSE _headers_converter(call.schema)

(***************************************************************************)
(* The schemas and authenticators of the application under documentation.  *)
(***************************************************************************)
ErrorSchema == Schema(0, "Error", "Error", <<Field("message", "string")>>)

FooFields ==
    << Field("uid", "string"), Field("name", "string") >>

FooSchema1 == Schema(1, "FooSchema", "Foo", FooFields)

FooSchema2 == Schema(2, "FooSchema", "Foo", FooFields)

ListOfFoo ==
    Schema(3, "ListOfFoo", "ListOfFoo",
           << [name |-> "data", wire |-> "data", type |-> "list",
               required |-> FALSE, dump_only |-> FALSE,
               nested |-> Schema(4, "FooSchema", "Foo", FooFields)] >>)

FooUpdateSchema ==
    Schema(5, "FooUpdateSchema", "FooUpdateSchema", <<Field("name", "string")>>)

\* Another schema that carries the title Foo.
OtherFoo == Schema(6, "OtherFoo", "Foo", <<Field("other", "integer")>>)

\* FooSchema(many=True): an array whose items carry the schema's own title.
FooMany ==
    ArraySchema(9, "FooSchema", "Foo", Schema(10, "FooSchema", "Foo", FooFields))

\* A schema class converted to an array of Foo by a converter registered for
\* it: the array's schema has a title of its own.
FooArray ==
    ArraySchema(11, "FooArray", "FooArray", Schema(12, "FooSchema", "Foo", FooFields))

FooListSchema == Schema(7, "FooListSchema", "FooListSchema", <<Field("name", "string")>>)

HeaderSchema ==
    Schema(8, "HeaderSchema", "HeaderSchema",
           << [Field("user_id", "string") EXCEPT !.wire = "x-userid", !.required = TRUE] >>)

Auth1 == HeaderApiKeyAuthenticator(1, "x-auth", "sharedSecret")

\* A second header authenticator under the default name.
Auth2 == HeaderApiKeyAuthenticator(2, "x-other", "sharedSecret")

Auth3 == CustomAuthenticator(3, "basic")

(***************************************************************************)
(* The generator.                                                          *)
(***************************************************************************)
\* generator construction: host, schemes, consumes, produces and
\* default_response_schema
Host == "http://default.dev.planfront.net"

Schemes == <<"http">>

Consumes == <<"application/json">>

Produces == <<"application/vnd.plangrid+json">>

default_response_schema == ErrorSchema

InitialFlaskConverters ==
    [t \in {"uuid", "string", "int", "float"} |->
        IF t = "int" THEN "integer" ELSE IF t = "float" THEN "number" ELSE "string"]

InitialAuthenticatorConverters ==
    [k \in {"HeaderApiKeyAuthenticator"} |-> "_convert_header_api_key_authenticator"]

\* str(status_code)
Digit(n) == <<"0", "1", "2", "3", "4", "5", "6", "7", "8", "9">>[n + 1]

RECURSIVE str(_)
str(n) == IF n < 10 THEN Digit(n) ELSE str(n \div 10) \o Digit(n % 10)

\* method.lower()
lower(method) ==
    [m \in {"GET", "PATCH", "POST", "PUT", "DELETE"} |->
        IF m = "GET" THEN "get" ELSE IF m = "PATCH" THEN "patch"
        ELSE IF m = "POST" THEN "post" ELSE IF m = "PUT" THEN "put"
        ELSE "delete"][method]

\* The Python str made of the characters cs.
RECURSIVE StrOf(_)
StrOf(cs) == IF cs = <<>> THEN "" ELSE Head(cs) \o StrOf(Tail(cs))

\* d1.update(d2)
DictUpdate(d1, d2) ==
    Let(<<d1, d2>>, LAMBDA ds :
        [k \in DOMAIN ds[1] \cup DOMAIN ds[2] |->
            IF k \in DOMAIN ds[2] THEN ds[2][k] ELSE ds[1][k]])

\* A plausible slip: the KeyError of a missing converter is swallowed
\* (`except KeyError: return {}`).
Raised_swallowed == [raised |-> FALSE, value |-> EmptyDict, calls |-> <<>>]

\* A KeyError leaves the function: nothing is returned.
Raised == [raised |-> TRUE, value |-> EmptyDict, calls |-> <<>>]

Returned(v) == [raised |-> FALSE, value |-> v, calls |-> <<>>]

_convert_header_api_key_authenticator(authenticator) ==
    [key |-> authenticator.name,
     definition |-> [name |-> authenticator.header, in |-> "header", type |-> "apiKey"]]

\* A converter registered through register_authenticator_converter.
_convert_custom_authenticator(authenticator) ==
    [key |-> authenticator.name, definition |-> [type |-> "basic"]]

\* converter(authenticator) for a registered converter
CallConverter(converter, authenticator) ==
    IF converter = "_convert_header_api_key_authenticator"
    THEN _convert_header_api_key_authenticator(authenticator)
    ELSE _convert_custom_authenticator(authenticator)

\* _get_security: a KeyError when the class has no converter
_get_security(converters, authenticator) ==
    IF authenticator.klass \notin DOMAIN converters THEN Raised
    ELSE Returned([k \in {CallConverter(converters[authenticator.klass],
                                        authenticator).key} |-> <<>>])

\* _iterate_path_definitions
_iterate_path_definitions(paths) ==
    Concat([i \in 1..Len(paths) |->
              [j \in 1..Len(paths[i].methods) |-> paths[i].methods[j][2]]])

Range(f) == { f[i] : i \in DOMAIN f }

\* The set `authenticators` of _get_security_definitions
_authenticators(paths, default) ==
    { d.authenticator : d \in { x \in Range(_iterate_path_definitions(paths)) :
                                  x.authenticator # None
                                  /\ x.authenticator # USE_DEFAULT } }
      \cup (IF default # None THEN {default} ELSE {})

\* The orders in which a set may be iterated.
Orders(S) ==
    { o \in [1..Cardinality(S) -> S] : \A x \in S : \E i \in DOMAIN o : o[i] = x }

\* The loop of _get_security_definitions over the set, iterated in `order`.
RECURSIVE _convert_authenticators(_, _, _)
_convert_authenticators(converters, order, security_definitions) ==
    IF order = <<>> THEN Returned(security_definitions)
    ELSE LET authenticator == Head(order)
         IN  IF authenticator.klass \notin DOMAIN converters THEN Raised
             ELSE LET c == CallConverter(converters[authenticator.klass], authenticator)
                  IN  _convert_authenticators(
                          converters, Tail(order),
                          DictSet(security_definitions, c.key, c.definition))

_get_security_definitions(converters, order) ==
    _convert_authenticators(converters, order, EmptyDict)

\* The schema uses _get_definitions walks through: per route definition its
\* marshal_schemas.values(), then its request_body_schema.
SchemaUses(d) ==
    [i \in 1..Len(d.marshal_schemas) |->
        [registry |-> "response", schema |-> d.marshal_schemas[i][2]]]
    \o (IF d.request_body_schema # None
        THEN <<[registry |-> "request_body", schema |-> d.request_body_schema]>>
        ELSE <<>>)

\* The first loop of _get_definitions: `converted` lists, in order, the
\* conversions made, each by its registry and schema.
RECURSIVE _convert_new_schemas(_, _, _)
_convert_new_schemas(uses, all_schemas, converted) ==
    IF uses = <<>> THEN converted
    ELSE LET use == Head(uses)
         IN  _convert_new_schemas(
                 Tail(uses),
                 all_schemas \cup {use.schema},
                 IF use.schema \notin all_schemas
                 THEN Append(converted, use) ELSE converted)

_get_converted(paths) ==
    Let(_iterate_path_definitions(paths), LAMBDA ds :
    Let(Concat([i \in 1..Len(ds) |-> SchemaUses(ds[i])]), LAMBDA uses :
        _convert_new_schemas(
            uses,
            {default_response_schema},
            <<[registry |-> "response", schema |-> default_response_schema]>>)))

\* _, flattened_definitions = _flatten(obj) on a freshly converted obj
FlattenedDefinitions(obj) ==
    Let(Alloc(<<>>, obj), LAMBDA a :
    Let(_flatten(a.heap, a.addr), LAMBDA r :
        IF r.raised THEN Raised
        ELSE Returned([k \in DOMAIN r.definitions |-> Val(r.heap, r.definitions[k])])))

\* A plausible slip: the converted fragments go into the table as they are.
RECURSIVE _flatten_converted_whole(_, _)
_flatten_converted_whole(converted, flattened) ==
    IF converted = <<>> THEN Returned(flattened)
    ELSE _flatten_converted_whole(
             Tail(converted),
             DictSet(flattened, Converted(Head(converted)).title,
                     Converted(Head(converted))))

\* The second loop of _get_definitions
RECURSIVE _flatten_converted(_, _)
_flatten_converted(converted, flattened) ==
    IF converted = <<>> THEN Returned(flattened)
    ELSE Let(FlattenedDefinitions(Converted(Head(converted))),
             LAMBDA flattened_definitions :
                IF flattened_definitions.raised THEN Raised
                ELSE Let(DictUpdate(flattened, flattened_definitions.value),
                         LAMBDA flattened_ :
                            _flatten_converted(Tail(converted), flattened_)))

_get_definitions(paths) == _flatten_converted(_get_converted(paths), EmptyDict)

\* A plausible slip: in_ left at its default, 'query'.
_convert_jsonschema_to_list_of_query_parameters(obj_, in_) ==
    Let(obj_, LAMBDA obj :
    IF "type" \notin DOMAIN obj \/ "properties" \notin DOMAIN obj THEN Raised
    ELSE IF obj.type # "object" THEN Raised
    ELSE
    LET required == IF "required" \in DOMAIN obj THEN obj.required ELSE <<>>
    IN  Returned(
        [i \in 1..Len(obj.properties) |->
           LET name == obj.properties[i][1]
               prop == obj.properties[i][2]
           IN  DictSet(DictSet(DictSet(prop, "required", name \in Range(required)),
                               "in", "query"),
                       "name", name)]))

\* _convert_jsonschema_to_list_of_parameters: the list, or an error raised:
\* the AssertionError of `assert obj['type'] == 'object'`, or the KeyError of
\* obj['type'] or obj['properties'] on a fragment without that key.
_convert_jsonschema_to_list_of_parameters(obj_, in_) ==
    Let(obj_, LAMBDA obj :
    IF "type" \notin DOMAIN obj \/ "properties" \notin DOMAIN obj THEN Raised
    ELSE IF obj.type # "object" THEN Raised
    ELSE
    LET required == IF "required" \in DOMAIN obj THEN obj.required ELSE <<>>
    IN  Returned(
        [i \in 1..Len(obj.properties) |->
           LET name == obj.properties[i][1]
               prop == obj.properties[i][2]
           IN  DictSet(DictSet(DictSet(prop, "required", name \in Range(required)),
                               "in", in_),
                       "name", name)]))

\* A plausible slip: the default response only when nothing is marshalled.
_get_responses_bare(d) ==
    IF d.marshal_schemas = <<>>
    THEN [k \in {"default"} |->
            [schema |-> [ref |-> _get_ref(get_swagger_title(default_response_schema))]]]
    ELSE [k \in { str(d.marshal_schemas[i][1]) : i \in 1..Len(d.marshal_schemas) } |->
            [schema |-> [ref |-> _get_ref(get_swagger_title(
                (CHOOSE m \in Range(d.marshal_schemas) : str(m[1]) = k)[2]))]]]

\* responses_definition of _get_paths
RECURSIVE _add_responses(_, _)
_add_responses(responses_definition, marshal_schemas) ==
    IF marshal_schemas = <<>> THEN responses_definition
    ELSE LET status_code == Head(marshal_schemas)[1]
             sch == Head(marshal_schemas)[2]
         IN  _add_responses(
                 DictSet(responses_definition, str(status_code),
                         [schema |-> [ref |-> _get_ref(get_swagger_title(sch))]]),
                 Tail(marshal_schemas))

_get_responses(d) ==
    _add_responses(
        [k \in {"default"} |->
            [schema |-> [ref |-> _get_ref(get_swagger_title(default_response_schema))]]],
        d.marshal_schemas)

\* The request-body entry of parameters_definition
_body_parameter(d) ==
    IF d.request_body_schema # None
    THEN <<[name |-> d.request_body_schema.klass,
            in |-> "body",
            required |-> TRUE,
            schema |-> [ref |-> _get_ref(get_swagger_title(d.request_body_schema))]]>>
    ELSE <<>>

\* parameters_definition of _get_paths, with the registry calls made for it;
\* an error raised by a conversion to a parameter list ends it there.
_get_parameters(d) ==
    LET query_calls ==
            IF d.query_string_schema # None
            THEN <<[registry |-> "query_string", schema |-> d.query_string_schema]>>
            ELSE <<>>
        headers_calls ==
            IF d.headers_schema # None
            THEN <<[registry |-> "headers", schema |-> d.headers_schema]>>
            ELSE <<>>
    IN  Let(IF d.query_string_schema # None
            THEN _convert_jsonschema_to_list_of_parameters(
                     _query_string_converter(d.query_string_schema), "query")
            ELSE Returned(<<>>),
            LAMBDA query :
              IF query.raised
              THEN [raised |-> TRUE, value |-> <<>>, calls |-> query_calls]
              ELSE Let(IF d.headers_schema # None
                       THEN _convert_jsonschema_to_list_of_parameters(
                                _headers_converter(d.headers_schema), "header")
                       ELSE Returned(<<>>),
                       LAMBDA headers :
                         IF headers.raised
                         THEN [raised |-> TRUE, value |-> <<>>,
                               calls |-> query_calls \o headers_calls]
                         ELSE [raised |-> FALSE,
                               value |-> query.value \o _body_parameter(d)
                                           \o headers.value,
                               calls |-> query_calls \o headers_calls]))

\* A plausible slip: `if not d.authenticator` takes None for "no override".
_add_security_falsy(converters, operation, d) ==
    IF d.authenticator = None \/ d.authenticator = USE_DEFAULT THEN Returned(operation)
    ELSE Let(_get_security(converters, d.authenticator), LAMBDA security :
             IF security.raised THEN Raised
             ELSE Returned(DictSet(operation, "security", security.value)))

\* The security of an operation, the end of the method loop of _get_paths
_add_security(converters, operation, d) ==
    IF d.authenticator = None THEN Returned(DictSet(operation, "security", EmptyDict))
    ELSE IF d.authenticator # USE_DEFAULT
    THEN Let(_get_security(converters, d.authenticator), LAMBDA security :
             IF security.raised THEN Raised
             ELSE Returned(DictSet(operation, "security", security.value)))
    ELSE Returned(operation)

\* path_definition[method_lower] of _get_paths, with the registry calls made
\* for its parameters
_get_operation(converters, d) ==
    LET base == [operationId |-> get_swagger_title(d.func),
                 responses |-> _get_responses(d)]
        described == IF d.func.doc # "" THEN DictSet(base, "description", d.func.doc)
                     ELSE base
    IN  Let(_get_parameters(d), LAMBDA parameters_definition :
            IF parameters_definition.raised
            THEN [raised |-> TRUE, value |-> EmptyDict,
                  calls |-> parameters_definition.calls]
            ELSE Let(_add_security(converters,
                                   IF parameters_definition.value # <<>>
                                   THEN DictSet(described, "parameters",
                                                parameters_definition.value)
                                   ELSE described,
                                   d),
                     LAMBDA operation :
                        [raised |-> operation.raised, value |-> operation.value,
                         calls |-> parameters_definition.calls]))

\* The loop of _get_paths over methods.items(); calls collects the registry
\* conversions made.
RECURSIVE _get_methods(_, _, _, _)
_get_methods(converters, methods, path_definition, calls) ==
    IF methods = <<>> THEN [raised |-> FALSE, value |-> path_definition, calls |-> calls]
    ELSE Let(Head(methods), LAMBDA item :
         LET method == item[1]
             d == item[2]
         IN  Let(_get_operation(converters, d), LAMBDA operation :
             Let(calls \o operation.calls, LAMBDA calls_ :
                 IF operation.raised
                 THEN [raised |-> TRUE, value |-> EmptyDict, calls |-> calls_]
                 ELSE Let(DictSet(path_definition, lower(method), operation.value),
                          LAMBDA path_definition_ :
                            _get_methods(converters, Tail(methods),
                                         path_definition_, calls_)))))

\* path_definition[sw.parameters] of _get_paths: a KeyError when the type of
\* a path argument is not in flask_converters_to_swagger_types
_get_path_parameters(types, path_args_) ==
    IF \E i \in 1..Len(path_args_) : StrOf(path_args_[i].type) \notin DOMAIN types
    THEN Raised
    ELSE Returned([i \in 1..Len(path_args_) |->
                     [name |-> StrOf(path_args_[i].name),
                      required |-> TRUE,
                      in |-> "path",
                      type |-> types[StrOf(path_args_[i].type)]]])

\* The loop of _get_paths over paths.items()
RECURSIVE _get_paths_loop(_, _, _, _, _)
_get_paths_loop(converters, types, paths, path_definitions, calls) ==
    IF paths = <<>> THEN [raised |-> FALSE, value |-> path_definitions, calls |-> calls]
    ELSE Let(_format_path_for_swagger(Head(paths).path), LAMBDA t :
         Let(_get_path_parameters(types, t.args), LAMBDA parameters :
             IF parameters.raised
             THEN [raised |-> TRUE, value |-> EmptyDict, calls |-> calls]
             ELSE Let(_get_methods(
                          converters, Head(paths).methods,
                          IF t.args # <<>>
                          THEN [k \in {"parameters"} |-> parameters.value]
                          ELSE EmptyDict,
                          calls),
                      LAMBDA methods :
                        IF methods.raised
                        THEN [raised |-> TRUE, value |-> EmptyDict,
                              calls |-> methods.calls]
                        ELSE Let(DictSet(path_definitions, StrOf(t.subbed_path),
                                         methods.value),
                                 LAMBDA path_definitions_ :
                                    _get_paths_loop(converters, types, Tail(paths),
                                                    path_definitions_, methods.calls)))))

_get_paths(converters, types, paths) ==
    _get_paths_loop(converters, types, paths, EmptyDict, <<>>)

\* generate(framer), the set of authenticators being iterated in `order`:
\* the returned document, or raised, and the registry conversions made.
generate(paths, default, converters, types, order) ==
    Let(_get_security_definitions(converters, order), LAMBDA security_definitions :
        IF security_definitions.raised THEN Raised
        ELSE Let(_get_converted(paths), LAMBDA converted :
             Let(_flatten_converted(converted, EmptyDict), LAMBDA definitions_ :
             IF definitions_.raised
             THEN [raised |-> TRUE, value |-> EmptyDict, calls |-> converted]
             ELSE
             Let(_get_paths(converters, types, paths), LAMBDA paths_ :
             LET document ==
                    [swagger |-> "2.0",
                     info |-> EmptyDict,
                     host |-> Host,
                     schemes |-> Schemes,
                     consumes |-> Consumes,
                     produces |-> Produces,
                     securityDefinitions |-> security_definitions.value,
                     paths |-> paths_.value,
                     definitions |-> definitions_.value]
             IN  IF paths_.raised
                 THEN [raised |-> TRUE, value |-> EmptyDict,
                       calls |-> converted \o paths_.calls]
                 ELSE IF default # None
                 THEN Let(_get_security(converters, default), LAMBDA security :
                          IF security.raised
                          THEN [raised |-> TRUE, value |-> EmptyDict,
                                calls |-> converted \o paths_.calls]
                          ELSE [raised |-> FALSE,
                                value |-> DictSet(document, "security", security.value),
                                calls |-> converted \o paths_.calls])
                 ELSE [raised |-> FALSE, value |-> document,
                       calls |-> converted \o paths_.calls]))))

(***************************************************************************)
(* The route table: framer.handles(path, method, marshal, ...) for three   *)
(* handlers, each with the variants below.                                 *)
(***************************************************************************)
ItemPath == <<"/", "f", "/", "<", "u", ">">>

ListPath == <<"/", "f">>

\* authenticator= of a handler: left out, None, the handler's header
\* authenticator or the custom one
Authentications(own) == {USE_DEFAULT, None, own, Auth3}

Marshal(codes, sch) == [i \in 1..Len(codes) |-> <<codes[i], sch>>]

RouteDefinition(func, doc, marshal, body, qs, headers, authenticate) ==
    [func |-> [title |-> func, doc |-> doc],
     marshal_schemas |-> marshal,
     request_body_schema |-> body,
     query_string_schema |-> qs,
     headers_schema |-> headers,
     authenticator |-> authenticate]

GetFooRoutes ==
    { [path |-> ItemPath, method |-> "GET",
       d |-> RouteDefinition("get_foo", "helpful description", m, None, None, h, a)] :
        m \in { <<>>, Marshal(<<200>>, FooSchema1), Marshal(<<200, 201>>, FooSchema1) },
        h \in { None, HeaderSchema },
        a \in Authentications(Auth1) }

UpdateFooRoutes ==
    { [path |-> ItemPath, method |-> "PATCH",
       d |-> RouteDefinition("update_foo", "", m, b, None, None, a)] :
        m \in { <<>>, Marshal(<<200>>, FooSchema1), Marshal(<<200>>, FooSchema2),
                Marshal(<<200>>, OtherFoo) },
        b \in { None, FooUpdateSchema, FooSchema1 },
        a \in Authentications(Auth1) }

ListFoosRoutes ==
    { [path |-> ListPath, method |-> "GET",
       d |-> RouteDefinition("list_foos", "", m, None, q, None, a)] :
        m \in { <<>>, Marshal(<<200>>, ListOfFoo), Marshal(<<200>>, ErrorSchema),
                Marshal(<<200>>, ListOfFoo) \o Marshal(<<404>>, ErrorSchema),
                Marshal(<<200>>, FooMany), Marshal(<<200>>, FooArray) },
        q \in { None, FooListSchema, FooMany },
        a \in Authentications(Auth2) }

\* A path whose argument goes through a converter of the application's own.
BarPath == <<"/", "b", "/", "<", "p", ":", "u", ">">>

GetBarRoutes ==
    { [path |-> BarPath, method |-> "GET",
       d |-> RouteDefinition("get_bar", "", <<>>, None, None, None, USE_DEFAULT)] }

Routes == GetFooRoutes \cup UpdateFooRoutes \cup ListFoosRoutes \cup GetBarRoutes

\* (path, method) has a handler already
Handled(paths, r) ==
    \E i \in DOMAIN paths :
        /\ paths[i].path = r.path
        /\ \E j \in DOMAIN paths[i].methods : paths[i].methods[j][1] = r.method

\* self.paths[path][method] = definition, for a method not handled yet
RECURSIVE SetRoute(_, _)
SetRoute(paths, r) ==
    IF paths = <<>> THEN <<[path |-> r.path, methods |-> << <<r.method, r.d>> >>]>>
    ELSE IF Head(paths).path = r.path
    THEN <<[Head(paths) EXCEPT !.methods = Append(@, <<r.method, r.d>>)]>> \o Tail(paths)
    ELSE <<Head(paths)>> \o SetRoute(Tail(paths), r)

\* The configurations explored: route tables that vary the authenticators
\* (with any default authenticator and converter registry) over handlers
\* that all have no schema or all have the schemas the test application
\* gives them, route tables that vary the schemas (no authenticator
\* anywhere), and route tables that vary the path converters (no
\* authenticator and no schema anywhere).
SecurityOnly(d) ==
    /\ d.marshal_schemas = <<>>
    /\ d.request_body_schema = None
    /\ d.query_string_schema = None
    /\ d.headers_schema = None

\* The handler has the schemas create_app of the test registers it with.
SchemasOfTest(d) ==
    \/ /\ d.func.title = "get_foo"
       /\ d.marshal_schemas = Marshal(<<200>>, FooSchema1)
       /\ d.headers_schema = HeaderSchema
    \/ /\ d.func.title = "update_foo"
       /\ d.marshal_schemas = Marshal(<<200>>, FooSchema2)
       /\ d.request_body_schema = FooUpdateSchema
    \/ /\ d.func.title = "list_foos"
       /\ d.marshal_schemas = Marshal(<<200>>, ListOfFoo)
       /\ d.query_string_schema = FooListSchema

Explored(paths, default, converters, types) ==
    LET ds == Range(_iterate_path_definitions(paths))
        plain == /\ default = None
                 /\ converters = InitialAuthenticatorConverters
                 /\ \A d \in ds : SecurityOnly(d) /\ d.authenticator = USE_DEFAULT
    IN  /\ (types # InitialFlaskConverters \/ \E d \in ds : d.func.title = "get_bar")
            => plain
        /\ \/ \A d \in ds : SecurityOnly(d)
           \/ \A d \in ds : SchemasOfTest(d)
           \/ /\ default = None
              /\ converters = InitialAuthenticatorConverters
              /\ \A d \in ds :
                    /\ d.authenticator = USE_DEFAULT
                    /\ d.func.title = "update_foo" => d.marshal_schemas # <<>>

(***************************************************************************)
(* Specification of the generator: routes are registered with the framer   *)
(* and converters with the generator; then the program runs, any number of *)
(* times, and generate is called on the table, MaxCalls times in all.      *)
(***************************************************************************)
InitGenerator ==
    /\ pc = "setup"
    /\ framer_paths = <<>>
    /\ default_authenticator \in {None, Auth1, Auth3}
    /\ authenticator_converters = InitialAuthenticatorConverters
    /\ flask_converters_to_swagger_types = InitialFlaskConverters
    /\ swagger = <<>>
    /\ converter_calls = <<>>
    /\ iteration_order = <<>>
    /\ PathIdle
    /\ FlattenIdle

\* framer.handles(...): each handler is registered once
Handles ==
    /\ pc = "setup"
    /\ \E r \in Routes :
        /\ ~Handled(framer_paths, r)
        /\ Explored(SetRoute(framer_paths, r), default_authenticator,
                    authenticator_converters, flask_converters_to_swagger_types)
        /\ framer_paths' = SetRoute(framer_paths, r)
    /\ UNCHANGED <<pc, default_authenticator, authenticator_converters,
                   flask_converters_to_swagger_types, swagger, converter_calls,
                   iteration_order, pathVars, flattenVars>>

\* generator.register_authenticator_converter(CustomAuthenticator, converter)
RegisterAuthenticatorConverter ==
    /\ pc = "setup"
    /\ Explored(framer_paths, default_authenticator,
                DictSet(authenticator_converters, "CustomAuthenticator",
                        "_convert_custom_authenticator"),
                flask_converters_to_swagger_types)
    /\ authenticator_converters' =
            DictSet(authenticator_converters, "CustomAuthenticator",
                    "_convert_custom_authenticator")
    /\ UNCHANGED <<pc, framer_paths, default_authenticator,
                   flask_converters_to_swagger_types, swagger, converter_calls,
                   iteration_order, pathVars, flattenVars>>

\* generator.register_flask_converter_to_swagger_type('p', 'string')
RegisterFlaskConverter ==
    /\ pc = "setup"
    /\ "p" \notin DOMAIN flask_converters_to_swagger_types
    /\ Explored(framer_paths, default_authenticator, authenticator_converters,
                DictSet(flask_converters_to_swagger_types, "p", "string"))
    /\ flask_converters_to_swagger_types' =
            DictSet(flask_converters_to_swagger_types, "p", "string")
    /\ UNCHANGED <<pc, framer_paths, default_authenticator, authenticator_converters,
                   swagger, converter_calls, iteration_order, pathVars, flattenVars>>

\* A run of the program starts: the application has built its route table
\* and generator as above, and the authenticators are where this run has
\* allocated them. A set of them is iterated in the order of their hashes,
\* which are their addresses: any order, the same one throughout the run.
Start ==
    /\ pc \in {"setup", "running"}
    /\ iteration_order' \in Orders(_authenticators(framer_paths, default_authenticator))
    /\ pc' = "running"
    /\ UNCHANGED <<framer_paths, default_authenticator, authenticator_converters,
                   flask_converters_to_swagger_types, swagger, converter_calls,
                   pathVars, flattenVars>>

\* generator.generate(framer), in the current run
Generate ==
    /\ pc = "running"
    /\ Len(swagger) < MaxCalls
    /\ \E r \in { generate(framer_paths, default_authenticator,
                            authenticator_converters,
                            flask_converters_to_swagger_types, iteration_order) } :
        /\ swagger' = Append(swagger, [raised |-> r.raised, value |-> r.value])
        /\ converter_calls' = Append(converter_calls, r.calls)
    /\ UNCHANGED <<pc, framer_paths, default_authenticator, authenticator_converters,
                   flask_converters_to_swagger_types, iteration_order,
                   pathVars, flattenVars>>

NextGenerator ==
    \/ Handles
    \/ RegisterAuthenticatorConverter
    \/ RegisterFlaskConverter
    \/ Start
    \/ Generate

SpecGenerator == InitGenerator /\ [][NextGenerator]_vars

(***************************************************************************)
(* Vocabulary of the properties: fragments as values.                      *)
(***************************************************************************)
IsObject(t) == "type" \in DOMAIN t /\ t.type = "object"

IsArray(t) == "type" \in DOMAIN t /\ t.type = "array"

IsPrimitive(t) == "type" \in DOMAIN t /\ t.type \notin {"object", "array"}

IsRef(t) == DOMAIN t = {"ref"}

Ref(title) == [ref |-> "#/definitions/" \o title]

PropertyValues(o) == { o.properties[i][2] : i \in 1..Len(o.properties) }

\* Every object fragment of t, t included.
RECURSIVE ObjectsIn(_)
ObjectsIn(t) ==
    IF IsObject(t) THEN {t} \cup UNION { ObjectsIn(v) : v \in PropertyValues(t) }
    ELSE IF IsArray(t) THEN ObjectsIn(t.items)
    ELSE {}

TitlesIn(t) == { o.title : o \in ObjectsIn(t) }

\* An array with the object its items lead to replaced by a reference.
RECURSIVE ReducedArray(_)
ReducedArray(t) ==
    IF IsObject(t.items) THEN [t EXCEPT !.items = Ref(t.items.title)]
    ELSE IF IsArray(t.items) THEN [t EXCEPT !.items = ReducedArray(t.items)]
    ELSE t

ReducedValue(v) ==
    IF IsObject(v) THEN Ref(v.title)
    ELSE IF IsArray(v) THEN ReducedArray(v)
    ELSE v

\* An object with every object below it replaced by a reference.
ReducedObject(o) ==
    [o EXCEPT !.properties =
        [i \in 1..Len(o.properties) |->
            <<o.properties[i][1], ReducedValue(o.properties[i][2])>>]]

\* The object an array's items lead to through nested arrays, if any.
RECURSIVE InnermostItems(_)
InnermostItems(t) == IF IsArray(t.items) THEN InnermostItems(t.items) ELSE t.items

\* The nested objects a claim about "a field holding a nested object g with
\* a different title" speaks of.
NestedFieldObjects(f) == { g \in PropertyValues(f) : IsObject(g) /\ g.title # f.title }

\* The dicts of the fragment at address a, one entry per use.
RECURSIVE DictsOf(_, _)
DictsOf(h, a) ==
    <<a>> \o (IF "properties" \in DOMAIN h[a]
              THEN Concat([i \in 1..Len(h[a].properties) |->
                              DictsOf(h, h[a].properties[i][2])])
              ELSE IF "items" \in DOMAIN h[a] THEN DictsOf(h, h[a].items)
              ELSE <<>>)

\* The caller's input uses no dict twice.
InputIsTree ==
    \E ds \in { DictsOf(heap, input) } :
        \A i, j \in DOMAIN ds : ds[i] = ds[j] => i = j

TestFlattenInput ==
    [type |-> "object", title |-> "x",
     properties |-> << <<"a", [type |-> "object", title |-> "y",
                              properties |-> << <<"b", [type |-> "integer"]>> >>]>>,
                       <<"b", [type |-> "string"]>> >>]

TestFlattenArrayInput ==
    [type |-> "array", title |-> "x",
     items |-> [type |-> "array", title |-> "y",
                items |-> [type |-> "object", title |-> "z",
                           properties |-> << <<"a", [type |-> "integer"]>> >>]]]

\* The call of _flatten raised: nothing was returned.
FlattenRaised == pc = "flatten_done" /\ schema = 0

(***************************************************************************)
(* Properties of the flattener (under SpecFlatten).                        *)
(***************************************************************************)
\* C1: for an object f with a field holding an object g of another title,
\* _flatten(f) returns the reference to f's title and definitions whose keys
\* are exactly the titles of f and of the objects nested in it, f's entry
\* being f with the nested field replaced by a reference and primitive fields
\* untouched, and g's entry being g verbatim.
C1_FlattenNested ==
    (/\ pc = "flatten_done"
     /\ IsObject(fragment)
     /\ NestedFieldObjects(fragment) # {})
    => /\ ~FlattenRaised
       /\ ReturnedSchema = Ref(fragment.title)
       /\ DOMAIN ReturnedDefinitions = TitlesIn(fragment)
       /\ LET entry == ReturnedDefinitions[fragment.title]
          IN  /\ Len(entry.properties) = Len(fragment.properties)
              /\ \A i \in 1..Len(fragment.properties) :
                    LET v == fragment.properties[i][2]
                    IN  /\ entry.properties[i][1] = fragment.properties[i][1]
                        /\ IsObject(v) => entry.properties[i][2] = Ref(v.title)
                        /\ IsPrimitive(v) => entry.properties[i][2] = v
       /\ \A g \in NestedFieldObjects(fragment) : ReturnedDefinitions[g.title] = g

\* What does hold of an object f with a nested object g when the caller's
\* input uses no dict twice: the reference to f is returned, the keys are the
\* titles of f and of the objects nested in it, f's entry is f with every
\* object below it replaced by a reference, and g's entry is g rewritten in
\* the same way, whenever no other object of f carries g's title.
FlattenNestedOfTree ==
    (/\ pc = "flatten_done"
     /\ InputIsTree
     /\ IsObject(fragment)
     /\ NestedFieldObjects(fragment) # {})
    => /\ ~FlattenRaised
       /\ ReturnedSchema = Ref(fragment.title)
       /\ DOMAIN ReturnedDefinitions = TitlesIn(fragment)
       /\ ReturnedDefinitions[fragment.title] = ReducedObject(fragment)
       /\ \A g \in NestedFieldObjects(fragment) :
            (\A o \in ObjectsIn(fragment) : o.title = g.title => o = g)
            => ReturnedDefinitions[g.title] = ReducedObject(g)

\* The call raised on an object that holds one dict in two fields, that dict
\* being an object that nests an object.
SharedNestedRaised ==
    /\ FlattenRaised
    /\ ~InputIsTree
    /\ IsObject(fragment)
    /\ \E g \in NestedFieldObjects(fragment) : NestedFieldObjects(g) # {}

\* The fixture of TestFlatten.test_flatten has been flattened to the expected
\* two-entry table.
TestFlattenFlattened ==
    /\ pc = "flatten_done"
    /\ fragment = TestFlattenInput
    /\ ReturnedSchema = Ref("x")
    /\ DOMAIN ReturnedDefinitions = {"x", "y"}
    /\ ReturnedDefinitions["x"].properties[1] = <<"a", Ref("y")>>
    /\ ReturnedDefinitions["y"] = TestFlattenInput.properties[1][2]

\* C2: for an array root whose items lead, through nested arrays, to an
\* object, _flatten returns the array wrappers as they were with only the
\* innermost items rewritten to a reference, and the definitions hold the
\* innermost object and the objects nested in it and no array wrapper, even
\* when the wrappers carry titles.
C2_ArrayRoot ==
    (/\ pc = "flatten_done"
     /\ IsArray(fragment)
     /\ IsObject(InnermostItems(fragment)))
    => /\ ~FlattenRaised
       /\ ReturnedSchema = ReducedArray(fragment)
       /\ DOMAIN ReturnedDefinitions = TitlesIn(InnermostItems(fragment))
       /\ \A k \in DOMAIN ReturnedDefinitions : IsObject(ReturnedDefinitions[k])
       /\ ReturnedDefinitions[InnermostItems(fragment).title]
            = ReducedObject(InnermostItems(fragment))

\* What does hold of an array root: the statement of C2 when the caller's
\* input uses no dict twice.
ArrayRootOfTree ==
    (/\ pc = "flatten_done"
     /\ InputIsTree
     /\ IsArray(fragment)
     /\ IsObject(InnermostItems(fragment)))
    => /\ ~FlattenRaised
       /\ ReturnedSchema = ReducedArray(fragment)
       /\ DOMAIN ReturnedDefinitions = TitlesIn(InnermostItems(fragment))
       /\ \A k \in DOMAIN ReturnedDefinitions : IsObject(ReturnedDefinitions[k])
       /\ ReturnedDefinitions[InnermostItems(fragment).title]
            = ReducedObject(InnermostItems(fragment))

\* The fixture of TestFlatten.test_flatten_array (titled wrappers x and y
\* around the object z) has been flattened: only z is in the table.
TestFlattenArrayFlattened ==
    /\ pc = "flatten_done"
    /\ fragment = TestFlattenArrayInput
    /\ ReturnedSchema.items.items = Ref("z")
    /\ DOMAIN ReturnedDefinitions = {"z"}

\* C3: _flatten never mutates its input: after the call the caller's fragment
\* is structurally what it was when the call was made, whether the call
\* returned or raised, and also when the input uses a dict twice.
C3_InputNotMutated ==
    pc = "flatten_done" => Val(heap, input) = fragment

\* A call that rewrote something: the returned entry for the root differs
\* from the caller's object, which is intact.
C3_Witness ==
    /\ pc = "flatten_done"
    /\ schema # 0
    /\ IsObject(fragment)
    /\ NestedFieldObjects(fragment) # {}
    /\ ReturnedDefinitions[fragment.title] # fragment
    /\ Val(heap, input) = fragment

\* C12: flattening a primitive root (type neither 'object' nor 'array')
\* returns a fragment equal to the input together with an empty definitions
\* mapping.
C12_PrimitiveRootUnchanged ==
    (pc = "flatten_done" /\ IsPrimitive(fragment))
    => /\ schema \in DOMAIN heap
       /\ ReturnedSchema = fragment
       /\ ReturnedDefinitions = EmptyDict

\* The primitive {'type': 'integer'} has been flattened and has come back.
C12_Witness ==
    /\ pc = "flatten_done"
    /\ fragment = [type |-> "integer"]
    /\ ReturnedSchema = [type |-> "integer"]
    /\ DOMAIN ReturnedDefinitions = {}

\* C13, as stated: flattening a root that is neither an object nor an array
\* raises an error instead of returning a result.
C13_PrimitiveRootRaises ==
    (pc = "flatten_done" /\ IsPrimitive(fragment)) => FlattenRaised

\* C13, amended: flattening a root that is neither an object nor an array
\* raises nothing: the call returns a fresh dict, not the caller's, and
\* records no definition.
C13_PrimitiveRootReturns ==
    (pc = "flatten_done" /\ IsPrimitive(fragment))
    => /\ ~FlattenRaised
       /\ schema \in DOMAIN heap
       /\ schema # input
       /\ DOMAIN definitions = {}

\* The primitive {'type': 'string'} has been flattened: the call returned.
C13_Witness ==
    /\ pc = "flatten_done"
    /\ fragment = [type |-> "string"]
    /\ ~FlattenRaised
    /\ schema # input

(***************************************************************************)
(* Properties of the path translator (under SpecPath).                     *)
(***************************************************************************)
\* A pattern written from literal characters and placeholders only.
WellFormed(ps) ==
    \A i \in 1..Len(ps) :
        ps[i].kind = "literal" => ps[i].text \notin {<<"<">>, <<">">>, <<":">>}

IsPlaceholder(part) == part.kind = "placeholder"

ExpectedPath(ps) ==
    Concat([i \in 1..Len(ps) |->
              IF IsPlaceholder(ps[i]) THEN <<"{">> \o ps[i].name \o <<"}">>
              ELSE ps[i].text])

ExpectedArg(part) ==
    [name |-> part.name, type |-> IF part.type = <<>> THEN DefaultType ELSE part.type]

ExpectedArgs(ps) ==
    LET holders == SelectSeq(ps, IsPlaceholder)
    IN  [i \in 1..Len(holders) |-> ExpectedArg(holders[i])]

\* C4: path translation replaces every placeholder '<type:name>' or '<name>'
\* with '{name}' and returns the arguments as (name, type) pairs in order of
\* appearance, type 'string' when the placeholder has none; a pattern without
\* placeholders comes back unchanged with no arguments.
C4_PathTranslation ==
    (pc = "path_done" /\ WellFormed(parts))
    => /\ subbed_path = ExpectedPath(parts)
       /\ path_args = ExpectedArgs(parts)

(***************************************************************************)
(* The flattener and the generator side by side, for the properties that   *)
(* speak of both.                                                          *)
(***************************************************************************)
SpecDefinitions ==
    (InitFlatten \/ InitGenerator) /\ [][NextFlatten \/ NextGenerator]_vars

(***************************************************************************)
(* Vocabulary of the properties of the generator.                          *)
(***************************************************************************)
\* The calls of generate that returned a document.
Documents == { i \in DOMAIN swagger : ~swagger[i].raised }

\* The routes of the table, as <<path, method, definition>>.
RouteEntries ==
    UNION { { <<framer_paths[i].path, framer_paths[i].methods[j][1],
                framer_paths[i].methods[j][2]>> : j \in DOMAIN framer_paths[i].methods } :
            i \in DOMAIN framer_paths }

\* The operation a document holds for a route.
OperationOf(doc, e) ==
    doc.paths[StrOf(_format_path_for_swagger(e[1]).subbed_path)][lower(e[2])]

\* The places (route, status code) where S is a marshal schema.
MarshalUses(S) ==
    { <<e, i>> \in RouteEntries \X (1..2) :
        i \in DOMAIN e[3].marshal_schemas /\ e[3].marshal_schemas[i][2] = S }

MarshalSchemas ==
    UNION { { e[3].marshal_schemas[i][2] : i \in DOMAIN e[3].marshal_schemas } :
            e \in RouteEntries }

\* How many times the response converter was invoked on S.
ResponseConversions(calls, S) ==
    Cardinality({ k \in DOMAIN calls :
                    calls[k] = [registry |-> "response", schema |-> S] })

\* The authenticators securityDefinitions is to describe.
NamedAuthenticators ==
    ({ e[3].authenticator : e \in RouteEntries } \ {None, USE_DEFAULT})
    \cup ({default_authenticator} \ {None})

\* What an authenticator converts to.
ExpectedPair(a) ==
    <<a.name,
      IF a.klass = "HeaderApiKeyAuthenticator"
      THEN [name |-> a.header, in |-> "header", type |-> "apiKey"]
      ELSE [type |-> "basic"]>>

\* The status codes of the route table, written out.
StatusKey(code) ==
    IF code = 200 THEN "200" ELSE IF code = 201 THEN "201" ELSE "404"

\* v holds no inlined object, and its reference, if any, is into table T.
RECURSIVE Flat(_, _)
Flat(v, T) ==
    IF IsArray(v) THEN Flat(v.items, T)
    ELSE /\ ~IsObject(v)
         /\ IsRef(v) => \E k \in DOMAIN T : v = Ref(k)

\* Every entry of table T is an object of one of the fragments in `sources`
\* under that object's title, with each object below it replaced by a
\* reference into T.
FlatTable(T, sources) ==
    \A k \in DOMAIN T :
        /\ IsObject(T[k])
        /\ \A v \in PropertyValues(T[k]) : Flat(v, T)
        /\ \E src \in sources : \E o \in ObjectsIn(src) :
                o.title = k /\ T[k] = ReducedObject(o)

(***************************************************************************)
(* Properties of the generator (under SpecGenerator).                      *)
(***************************************************************************)
\* C5: when one schema instance is the marshal schema of several routes or
\* several status codes, or is the generator's default error schema, a call
\* of generate that returns a document has invoked the response converter on
\* it exactly once and the definitions table has its one entry.
C5_ConvertedOnce ==
    \A n \in Documents :
        \A S \in MarshalSchemas \cup {default_response_schema} :
            (Cardinality(MarshalUses(S)) >= 2 \/ S = default_response_schema)
            => /\ ResponseConversions(converter_calls[n], S) = 1
               /\ S.title \in DOMAIN swagger[n].value.definitions

\* C6: in every returned document, the operation of a route whose
\* authenticator is USE_DEFAULT has no 'security' key, that of a route whose
\* authenticator is None has 'security' equal to {} whatever the default
\* authenticator, and that of a route with its own authenticator has
\* 'security' equal to {name: []} for the authenticator's converted name.
C6_TriStateSecurity ==
    \A n \in Documents : \A e \in RouteEntries :
        LET op == OperationOf(swagger[n].value, e)
            a == e[3].authenticator
        IN  /\ a = USE_DEFAULT => "security" \notin DOMAIN op
            /\ a = None => "security" \in DOMAIN op /\ DOMAIN op.security = {}
            /\ a \notin {USE_DEFAULT, None}
                => /\ "security" \in DOMAIN op
                   /\ DOMAIN op.security = {a.name}
                   /\ op.security[a.name] = <<>>

\* A document for a table with a default authenticator and three routes: one
\* inheriting, one opting out, one with its own authenticator.
C6_Witness ==
    /\ Documents # {}
    /\ default_authenticator = Auth1
    /\ \E e1, e2, e3 \in RouteEntries :
        /\ e1[3].authenticator = USE_DEFAULT
        /\ e2[3].authenticator = None
        /\ e3[3].authenticator = Auth2
        /\ \A n \in Documents :
            /\ "security" \notin DOMAIN OperationOf(swagger[n].value, e1)
            /\ DOMAIN OperationOf(swagger[n].value, e2).security = {}
            /\ DOMAIN OperationOf(swagger[n].value, e3).security = {"sharedSecret"}

\* C7: in every returned document, securityDefinitions holds exactly the
\* converted (name, definition) pairs of the authenticators named by some
\* route (neither None nor USE_DEFAULT) and of the default authenticator when
\* set; it is empty when there is none.
C7_SecurityDefinitions ==
    \A n \in Documents :
        LET sd == swagger[n].value.securityDefinitions
        IN  { <<k, sd[k]>> : k \in DOMAIN sd }
                = { ExpectedPair(a) : a \in NamedAuthenticators }

\* C8: in every returned document, each operation's responses map has the
\* 'default' entry referencing the default error schema's definition and
\* exactly one entry per status code of the route's marshal schemas, keyed
\* by the code as a string and referencing that schema's title; nothing else.
C8_Responses ==
    \A n \in Documents : \A e \in RouteEntries :
        LET responses == OperationOf(swagger[n].value, e).responses
            marshal == e[3].marshal_schemas
        IN  /\ DOMAIN responses
                = {"default"} \cup { StatusKey(marshal[i][1]) : i \in DOMAIN marshal }
            /\ responses["default"] = [schema |-> Ref(default_response_schema.title)]
            /\ \A i \in DOMAIN marshal :
                responses[StatusKey(marshal[i][1])] = [schema |-> Ref(marshal[i][2].title)]

\* A document with an operation marshalling two status codes and another
\* operation marshalling nothing.
C8_Witness ==
    /\ Documents # {}
    /\ \E e1, e2 \in RouteEntries :
        /\ Len(e1[3].marshal_schemas) = 2
        /\ e2[3].marshal_schemas = <<>>
        /\ \A n \in Documents :
            /\ DOMAIN OperationOf(swagger[n].value, e1).responses = {"default", "200", "201"}
            /\ DOMAIN OperationOf(swagger[n].value, e2).responses = {"default"}

\* C10: for a fixed route table, configuration and registries, any two
\* calls of generate return identical results, in whichever runs of the
\* program they are made.
C10_Deterministic ==
    \A m, n \in DOMAIN swagger : swagger[m] = swagger[n]

\* The path arguments of a route whose converter type the generator has no
\* Swagger type for.
UnknownTypeArgs(e) ==
    LET args == _format_path_for_swagger(e[1]).args
    IN  { i \in DOMAIN args :
            StrOf(args[i].type) \notin DOMAIN flask_converters_to_swagger_types }

\* C11: a path argument whose Flask converter type is not in
\* flask_converters_to_swagger_types does not make generate fail: the call
\* returns a document in which that argument is a path parameter of type
\* 'string'.
C11_UnknownConverterIsString ==
    \A n \in DOMAIN swagger : \A e \in RouteEntries :
        \A i \in UnknownTypeArgs(e) :
            /\ ~swagger[n].raised
            /\ LET item == swagger[n].value.paths[
                                StrOf(_format_path_for_swagger(e[1]).subbed_path)]
               IN  /\ "parameters" \in DOMAIN item
                   /\ item.parameters[i].in = "path"
                   /\ item.parameters[i].type = "string"

\* The authenticators of the route table, explicit on a route or the
\* default, whose class has no converter registered.
Unconvertible ==
    { a \in NamedAuthenticators : a.klass \notin DOMAIN authenticator_converters }

\* C14: when a route's explicit authenticator or the default authenticator
\* is of a class with no converter in authenticator_converters, every call
\* of generate fails and returns nothing, wherever the offending route is in
\* the route table.
C14_UnconvertibleFails ==
    \A n \in DOMAIN swagger :
        Unconvertible # {} => swagger[n] = [raised |-> TRUE, value |-> EmptyDict]

\* A call that failed on a table of two paths whose last route is the only
\* one with an authenticator without converter, the route before it having
\* one that converts.
C14_Witness ==
    /\ Len(framer_paths) = 2
    /\ default_authenticator = None
    /\ framer_paths[1].methods[1][2].authenticator = Auth1
    /\ Len(framer_paths[2].methods) = 1
    /\ framer_paths[2].methods[1][2].authenticator = Auth3
    /\ "CustomAuthenticator" \notin DOMAIN authenticator_converters
    /\ swagger # <<>>
    /\ \A n \in DOMAIN swagger : swagger[n].raised

\* The schemas that are the request body of a route.
BodySchemas ==
    { e[3].request_body_schema : e \in RouteEntries } \ {None}

\* How many times the converter of `registry` was invoked on S.
Conversions(calls, registry, S) ==
    Cardinality({ k \in DOMAIN calls :
                    calls[k] = [registry |-> registry, schema |-> S] })

\* C15: a call of generate that returns a document has converted every
\* schema that is the request body of a route exactly once with the
\* request-body registry, and every marshal schema and the default error
\* schema exactly once with the response registry, a schema that is both a
\* request body and a marshal schema included.
C15_ConvertedByRole ==
    \A n \in Documents :
        /\ \A S \in BodySchemas :
                Conversions(converter_calls[n], "request_body", S) = 1
        /\ \A S \in MarshalSchemas \cup {default_response_schema} :
                Conversions(converter_calls[n], "response", S) = 1

\* The 'parameters' list of an operation, empty when it has none.
ParametersOf(op) == IF "parameters" \in DOMAIN op THEN op.parameters ELSE <<>>

\* The schema of a route whose fields are parameters `in_` the request.
ParameterUse(d, in_) ==
    IF in_ = "query"
    THEN [registry |-> "query_string", schema |-> d.query_string_schema]
    ELSE [registry |-> "headers", schema |-> d.headers_schema]

\* The top-level fields, <<name, property>>, of that schema as converted.
FieldsIn(d, in_) ==
    IF ParameterUse(d, in_).schema = None THEN <<>>
    ELSE Converted(ParameterUse(d, in_)).properties

\* The names in the 'required' list of that schema as converted.
RequiredIn(d, in_) ==
    IF ParameterUse(d, in_).schema = None THEN {}
    ELSE LET obj == Converted(ParameterUse(d, in_))
         IN  IF "required" \in DOMAIN obj THEN Range(obj.required) ELSE {}

\* C16: in every returned document the 'parameters' of an operation hold,
\* for the route's query-string schema and headers schema as converted,
\* exactly one entry per top-level field, with in 'query' or 'header', the
\* field's name and type, and 'required' true exactly when the name is in
\* the converted 'required' list; exactly one entry with in 'body', which
\* references the definition of the request-body schema, when the route has
\* one and none otherwise; nothing else; and the operation has no
\* 'parameters' key when the list would be empty.
C16_Parameters ==
    \A n \in Documents : \A e \in RouteEntries :
        LET op == OperationOf(swagger[n].value, e)
            d == e[3]
            ps == ParametersOf(op)
            body == { j \in DOMAIN ps : ps[j].in = "body" }
        IN  /\ \A in_ \in {"query", "header"} :
                  LET fs == FieldsIn(d, in_)
                  IN  /\ \A i \in DOMAIN fs :
                            \E j \in DOMAIN ps :
                                /\ { k \in DOMAIN ps : /\ ps[k].in = in_
                                                       /\ ps[k].name = fs[i][1] } = {j}
                                /\ ps[j].required = (fs[i][1] \in RequiredIn(d, in_))
                                /\ ps[j].type = fs[i][2].type
                      /\ \A j \in DOMAIN ps :
                            ps[j].in = in_ => \E i \in DOMAIN fs : fs[i][1] = ps[j].name
            /\ \A j \in DOMAIN ps : ps[j].in \in {"query", "header", "body"}
            /\ IF d.request_body_schema = None THEN body = {}
               ELSE \E j \in DOMAIN ps :
                        /\ body = {j}
                        /\ ps[j].schema = Ref(get_swagger_title(d.request_body_schema))
            /\ "parameters" \in DOMAIN op
                    <=> \/ FieldsIn(d, "query") # <<>>
                        \/ FieldsIn(d, "header") # <<>>
                        \/ d.request_body_schema # None
            /\ "parameters" \in DOMAIN op => op.parameters # <<>>

\* A document for the three handlers: get_foo with the headers schema, whose
\* field 'x-userid' is required, list_foos with the query-string schema,
\* whose field 'name' is not, and update_foo with a request body.
C16_Witness ==
    /\ Documents # {}
    /\ \A n \in Documents :
        \E g, l, u \in RouteEntries :
            /\ g[3].headers_schema = HeaderSchema
            /\ l[3].query_string_schema = FooListSchema
            /\ u[3].request_body_schema = FooUpdateSchema
            /\ \E j \in DOMAIN ParametersOf(OperationOf(swagger[n].value, g)) :
                    LET p == ParametersOf(OperationOf(swagger[n].value, g))[j]
                    IN  p.in = "header" /\ p.name = "x-userid" /\ p.required
            /\ \E j \in DOMAIN ParametersOf(OperationOf(swagger[n].value, l)) :
                    LET p == ParametersOf(OperationOf(swagger[n].value, l))[j]
                    IN  p.in = "query" /\ p.name = "name" /\ ~p.required
            /\ \E j \in DOMAIN ParametersOf(OperationOf(swagger[n].value, u)) :
                    LET p == ParametersOf(OperationOf(swagger[n].value, u))[j]
                    IN  p.in = "body" /\ p.schema = Ref("FooUpdateSchema")

\* The references inside a fragment.
RECURSIVE RefsIn(_)
RefsIn(v) ==
    IF IsRef(v) THEN {v}
    ELSE IF IsArray(v) THEN RefsIn(v.items)
    ELSE IF IsObject(v) THEN UNION { RefsIn(w) : w \in PropertyValues(v) }
    ELSE {}

\* The references of a document: the schemas of its operations' responses
\* and body parameters, and those inside the entries of its definitions.
DocumentRefs(doc) ==
    UNION { LET op == OperationOf(doc, e)
                ps == ParametersOf(op)
            IN  { op.responses[k].schema : k \in DOMAIN op.responses }
                \cup { ps[j].schema : j \in { i \in DOMAIN ps : ps[i].in = "body" } } :
            e \in RouteEntries }
    \cup UNION { RefsIn(doc.definitions[k]) : k \in DOMAIN doc.definitions }

\* C17: every reference '#/definitions/<name>' of a returned document, in
\* the responses of an operation, in a body parameter or inside an entry of
\* the definitions table, names a key of the document's definitions table,
\* for every route table, those with a schema converted to an array-rooted
\* fragment included.
C17_ReferentialIntegrity ==
    \A n \in Documents :
        \A r \in DocumentRefs(swagger[n].value) :
            \E k \in DOMAIN swagger[n].value.definitions : r = Ref(k)

(***************************************************************************)
(* Properties of both (under SpecDefinitions).                             *)
(***************************************************************************)
\* C9: no entry of a definitions table holds an inlined object, in the table
\* of every document generate returns and in the definitions _flatten
\* returns: each entry is an object of the converted (or given) fragment
\* whose property values and array items, at any depth of array nesting, are
\* references into the table wherever they were objects.
C9_NoInlinedObject ==
    /\ pc = "flatten_done" => FlatTable(ReturnedDefinitions, {fragment})
    /\ \A n \in Documents :
        FlatTable(swagger[n].value.definitions,
                  { Converted(converter_calls[n][k]) : k \in DOMAIN converter_calls[n] })

\* A document whose table holds ListOfFoo with the items of its 'data'
\* array, an object Foo in the converted schema, as a reference to Foo.
C9_Witness ==
    /\ Documents # {}
    /\ \A n \in Documents :
        LET T == swagger[n].value.definitions
        IN  /\ {"ListOfFoo", "Foo"} \subseteq DOMAIN T
            /\ T["ListOfFoo"].properties[1][2] = [type |-> "array", items |-> Ref("Foo")]
            /\ IsObject(_response_converter(ListOfFoo).properties[1][2].items)

====
